---- MODULE Spec2Model ----
(***************************************************************************)
(* A model of the region quadtree of qtree-demo: src/src/rect.rs (the      *)
(* rectangle geometry) and src/src/qtree.rs (QTreeNode: new, subdiv,       *)
(* insert, query_point), driven the way src/src/main.rs drives them.       *)
(*                                                                         *)
(* Coordinates are f32 in the source.  The model keeps every coordinate on *)
(* a dyadic grid: the root boundary has half-extents RootHalf, a power of  *)
(* two large enough that every halving done by subdiv in a reachable tree  *)
(* is exact, so integer arithmetic and f32 arithmetic agree on all values  *)
(* that occur.                                                             *)
(***************************************************************************)
EXTENDS Integers, Sequences, FiniteSets

\* Number of insert calls made on the tree in one run.
MaxInserts == 3

\* Largest capacity a tree is constructed with (capacities 1..MaxCapacity).
MaxCapacity == 2

\* Largest finite limit handed to query_point (limits None, Some(0..MaxLimit)).
MaxLimit == 1

\* usize arithmetic wraps modulo 2^64 when overflow checks are off.  TLC's
\* integers are 32 bits wide, so the modulus is scaled down to 2^30; all that
\* matters here is that 0 - 1 wraps to a huge non-zero value.
UsizeModulus == 2^30

\* Half-extent of the root boundary: a node at depth d has half-extents
\* RootHalf / 2^d, and a tree holding at most MaxInserts + 1 objects has no
\* node deeper than MaxInserts + 1.
RootHalf == 2^(MaxInserts + 2)

VARIABLES
    qtree,            \* the root QTreeNode (MainState.qtree)
    circles,          \* id -> bounding box of every accepted insert (MainState.circles)
    next_id,          \* the next process-unique identifier (Uid::new())
    overflow_checks,  \* whether the build panics on integer overflow (debug) or wraps (release)
    last,             \* the last call made on the tree and what it returned
    frames            \* the stack of QTreeNode::insert calls in progress, innermost last

vars == <<qtree, circles, next_id, overflow_checks, last, frames>>

----------------------------------------------------------------------------
\* rect.rs

NE == 0
NW == 1
SW == 2
SE == 3

Point2_new(x, y) == [x |-> x, y |-> y]

\* Rect::new: from the top-left corner and the dimensions.
Rect_new(x, y, w, h) ==
    [center |-> Point2_new((x + x + w) \div 2, (y + y + h) \div 2),
     w_half |-> w \div 2,
     h_half |-> h \div 2]

\* Rect::corner, for the four defined tags.
corner(self, which) ==
    CASE which = NE -> Point2_new(self.center.x + self.w_half, self.center.y - self.h_half)
      [] which = NW -> Point2_new(self.center.x - self.w_half, self.center.y - self.h_half)
      [] which = SE -> Point2_new(self.center.x + self.w_half, self.center.y + self.h_half)
      [] which = SW -> Point2_new(self.center.x - self.w_half, self.center.y + self.h_half)

\* A containment test whose east and south edges are exclusive.
contains_point_half_open(self, point) ==
    /\ corner(self, NW).x <= point.x
    /\ point.x < corner(self, NE).x
    /\ corner(self, NE).y <= point.y
    /\ point.y < corner(self, SE).y

contains_point(self, point) ==
    /\ corner(self, NW).x <= point.x
    /\ point.x <= corner(self, NE).x
    /\ corner(self, NE).y <= point.y
    /\ point.y <= corner(self, SE).y

contains_rect(self, other) ==
    /\ contains_point(self, corner(other, NE))
    /\ contains_point(self, corner(other, NW))
    /\ contains_point(self, corner(other, SW))
    /\ contains_point(self, corner(other, SE))

----------------------------------------------------------------------------
\* qtree.rs

\* Option<T>: None is the empty sequence, Some(v) the one-element sequence.
None == <<>>
Some(v) == <<v>>

\* QTreeNode::new.  objects lists the HashMap's entries in the order the map
\* iterates them; children is None or the four children in order NE, NW, SW, SE.
QTreeNode_new(boundary, capacity) ==
    [boundary |-> boundary,
     objects  |-> <<>>,
     children |-> None,
     capacity |-> capacity]

\* A subdivision that lists the southern children in the order SE, SW.
subdiv_swapped(self) ==
    IF self.children # None THEN self
    ELSE
        LET b == self.boundary
            quadrant(which) ==
                [center |-> Point2_new((b.center.x + corner(b, which).x) \div 2,
                                       (b.center.y + corner(b, which).y) \div 2),
                 w_half |-> b.w_half \div 2,
                 h_half |-> b.h_half \div 2]
        IN  [self EXCEPT !.children =
                <<QTreeNode_new(quadrant(NE), self.capacity),
                  QTreeNode_new(quadrant(NW), self.capacity),
                  QTreeNode_new(quadrant(SE), self.capacity),
                  QTreeNode_new(quadrant(SW), self.capacity)>>]

\* A subdivision that does not hand the capacity on: the children are built
\* with capacity 0.
subdiv_zero_capacity(self) ==
    IF self.children # None THEN self
    ELSE
        LET b == self.boundary
            quadrant(which) ==
                [center |-> Point2_new((b.center.x + corner(b, which).x) \div 2,
                                       (b.center.y + corner(b, which).y) \div 2),
                 w_half |-> b.w_half \div 2,
                 h_half |-> b.h_half \div 2]
        IN  [self EXCEPT !.children =
                <<QTreeNode_new(quadrant(NE), 0),
                  QTreeNode_new(quadrant(NW), 0),
                  QTreeNode_new(quadrant(SW), 0),
                  QTreeNode_new(quadrant(SE), 0)>>]

\* A subdivision without the early return: it replaces existing children by
\* four fresh ones.
subdiv_again(self) ==
    LET b == self.boundary
        quadrant(which) ==
            [center |-> Point2_new((b.center.x + corner(b, which).x) \div 2,
                                   (b.center.y + corner(b, which).y) \div 2),
             w_half |-> b.w_half \div 2,
             h_half |-> b.h_half \div 2]
    IN  [self EXCEPT !.children =
            <<QTreeNode_new(quadrant(NE), self.capacity),
              QTreeNode_new(quadrant(NW), self.capacity),
              QTreeNode_new(quadrant(SW), self.capacity),
              QTreeNode_new(quadrant(SE), self.capacity)>>]

\* QTreeNode::subdiv.
subdiv(self) ==
    IF self.children # None THEN self
    ELSE
        LET b  == self.boundary
            ne == corner(b, NE)
            nw == corner(b, NW)
            sw == corner(b, SW)
            se == corner(b, SE)
            rect_ne == [center |-> Point2_new((b.center.x + ne.x) \div 2, (b.center.y + ne.y) \div 2),
                        w_half |-> b.w_half \div 2,
                        h_half |-> b.h_half \div 2]
            rect_nw == [center |-> Point2_new((b.center.x + nw.x) \div 2, (b.center.y + nw.y) \div 2),
                        w_half |-> b.w_half \div 2,
                        h_half |-> b.h_half \div 2]
            rect_sw == [center |-> Point2_new((b.center.x + sw.x) \div 2, (b.center.y + sw.y) \div 2),
                        w_half |-> b.w_half \div 2,
                        h_half |-> b.h_half \div 2]
            rect_se == [center |-> Point2_new((b.center.x + se.x) \div 2, (b.center.y + se.y) \div 2),
                        w_half |-> b.w_half \div 2,
                        h_half |-> b.h_half \div 2]
        IN  [self EXCEPT !.children =
                <<QTreeNode_new(rect_ne, self.capacity),
                  QTreeNode_new(rect_nw, self.capacity),
                  QTreeNode_new(rect_sw, self.capacity),
                  QTreeNode_new(rect_se, self.capacity)>>]

\* HashMap::insert on a node's objects: an existing key gets the new value, a
\* new key is added.  The order in which a HashMap iterates its entries is
\* arbitrary but fixed while the map is not changed; the model lists the
\* entries in the order of their insertion.
objects_insert(objects, id, rect) ==
    IF \E i \in 1..Len(objects) : objects[i].id = id
    THEN [i \in 1..Len(objects) |->
            IF objects[i].id = id THEN [id |-> id, rect |-> rect] ELSE objects[i]]
    ELSE Append(objects, [id |-> id, rect |-> rect])

\* A probing loop that lets a child's RectDoesNotFit escape to the caller.
probe_propagates(err) == FALSE

\* What the probing loop of insert does with the result of one child.insert:
\* Ok ends the insert, RectDoesNotFit moves on to the next child.
probe_swallows(err) == err = "RectDoesNotFit"

RECURSIVE insert(_, _, _)
RECURSIVE probe(_, _, _, _)

\* A probing loop that visits the children in the order SE, SW, NW, NE.
probe_reversed(children, i, rect, id) ==
    IF i > Len(children)
    THEN [returned |-> FALSE, err |-> "Ok", children |-> children]
    ELSE
        LET at   == Len(children) + 1 - i
            r    == insert(children[at], rect, id)
            next == [children EXCEPT ![at] = r.node]
        IN  IF r.err = "Ok" THEN [returned |-> TRUE, err |-> "Ok", children |-> next]
            ELSE IF probe_swallows(r.err) THEN probe(next, i + 1, rect, id)
            ELSE [returned |-> TRUE, err |-> r.err, children |-> next]

\* A probing loop that does not stop at the first child that accepts: it
\* offers the rectangle to the remaining children too.
probe_no_return(children, i, rect, id) ==
    IF i > Len(children)
    THEN [returned |-> FALSE, err |-> "Ok", children |-> children]
    ELSE
        LET r    == insert(children[i], rect, id)
            next == [children EXCEPT ![i] = r.node]
            rest == probe(next, i + 1, rect, id)
        IN  IF r.err = "Ok"
            THEN [returned |-> TRUE, err |-> "Ok", children |-> rest.children]
            ELSE IF probe_swallows(r.err) THEN rest
            ELSE [returned |-> TRUE, err |-> r.err, children |-> next]

\* The loop `for child in self.children.iter_mut()` of insert, from child i
\* (1..4 for NE, NW, SW, SE) on.  Returns the children as the loop leaves
\* them, whether the loop returned from insert (returned) and, if so, with
\* what (err).
probe(children, i, rect, id) ==
    IF i > Len(children)
    THEN [returned |-> FALSE, err |-> "Ok", children |-> children]
    ELSE
        LET r    == insert(children[i], rect, id)
            next == [children EXCEPT ![i] = r.node]
        IN  IF r.err = "Ok" THEN [returned |-> TRUE, err |-> "Ok", children |-> next]
            ELSE IF probe_swallows(r.err) THEN probe(next, i + 1, rect, id)
            ELSE [returned |-> TRUE, err |-> r.err, children |-> next]

\* An insert that treats capacity as a hard bound: a rectangle no child
\* accepts is rejected instead of being stored in a full node.
insert_hard_cap(self, rect, id) ==
    IF ~contains_rect(self.boundary, rect)
    THEN [err |-> "RectDoesNotFit", node |-> self]
    ELSE IF Len(self.objects) < self.capacity
    THEN [err |-> "Ok",
          node |-> [self EXCEPT !.objects = objects_insert(@, id, rect)]]
    ELSE
        LET s == IF self.children = None THEN subdiv(self) ELSE self
            p == probe(s.children, 1, rect, id)
            t == [s EXCEPT !.children = p.children]
        IN  IF p.returned THEN [err |-> p.err, node |-> t]
            ELSE [err |-> "RectDoesNotFit", node |-> t]

\* QTreeNode::insert.  Returns the error ("Ok" for Ok(())) and the node as the
\* call leaves it.
insert(self, rect, id) ==
    IF ~contains_rect(self.boundary, rect)
    THEN [err |-> "RectDoesNotFit", node |-> self]
    ELSE IF Len(self.objects) < self.capacity
    THEN [err |-> "Ok",
          node |-> [self EXCEPT !.objects = objects_insert(@, id, rect)]]
    ELSE
        LET s == IF self.children = None THEN subdiv(self) ELSE self
            p == probe(s.children, 1, rect, id)
            t == [s EXCEPT !.children = p.children]
        IN  IF p.returned THEN [err |-> p.err, node |-> t]
            ELSE [err |-> "Ok",
                  node |-> [t EXCEPT !.objects = objects_insert(@, id, rect)]]

\* `*limit -= 1` on a usize: with overflow checks on, subtracting from 0
\* panics; with them off it wraps.  Returns whether it panicked and the new
\* value.
usize_decrement(n) ==
    IF n = 0 /\ overflow_checks
    THEN [panic |-> TRUE, value |-> n]
    ELSE [panic |-> FALSE, value |-> (n - 1 + UsizeModulus) % UsizeModulus]

RECURSIVE scan(_, _, _, _, _)

\* The loop `for (id, obj) in &self.objects` of query_point, from entry i on.
\* Returns ret and limit as the loop leaves them; panicked when a decrement
\* panicked (ret is then never returned), underflow when a decrement was
\* applied to a limit of 0.
scan(objects, i, point, limit, ret) ==
    IF i > Len(objects)
    THEN [ret |-> ret, limit |-> limit, panicked |-> FALSE, underflow |-> FALSE]
    ELSE IF ~contains_point(objects[i].rect, point)
    THEN scan(objects, i + 1, point, limit, ret)
    ELSE
        LET ret1 == ret \cup {objects[i].id}
        IN  IF limit = None THEN scan(objects, i + 1, point, limit, ret1)
            ELSE
                LET d == usize_decrement(limit[1])
                IN  IF d.panic
                    THEN [ret |-> ret1, limit |-> limit, panicked |-> TRUE, underflow |-> TRUE]
                    ELSE IF d.value = 0
                    THEN [ret |-> ret1, limit |-> Some(0), panicked |-> FALSE, underflow |-> FALSE]
                    ELSE
                        LET rest == scan(objects, i + 1, point, Some(d.value), ret1)
                        IN  [rest EXCEPT !.underflow = @ \/ limit[1] = 0]

RECURSIVE query_point(_, _, _)
RECURSIVE query_children(_, _, _, _, _)

\* A loop over the children that leaves the last child out.
query_children_skips_last(children, i, point, limit, ret) ==
    IF i >= Len(children)
    THEN [ret |-> ret, panicked |-> FALSE, underflow |-> FALSE]
    ELSE
        LET c == query_point(children[i], point, limit)
        IN  IF c.panicked THEN [ret |-> ret, panicked |-> TRUE, underflow |-> TRUE]
            ELSE
                LET rest == query_children(children, i + 1, point, limit, ret \cup c.ret)
                IN  [rest EXCEPT !.underflow = @ \/ c.underflow]

\* The loop `for child in children.iter()` of query_point, from child i on:
\* every child is queried with the limit the parent's scan left, and its
\* result is united into ret.
query_children(children, i, point, limit, ret) ==
    IF i > Len(children)
    THEN [ret |-> ret, panicked |-> FALSE, underflow |-> FALSE]
    ELSE
        LET c == query_point(children[i], point, limit)
        IN  IF c.panicked THEN [ret |-> ret, panicked |-> TRUE, underflow |-> TRUE]
            ELSE
                LET rest == query_children(children, i + 1, point, limit, ret \cup c.ret)
                IN  [rest EXCEPT !.underflow = @ \/ c.underflow]

\* QTreeNode::query_point.  Returns the set of identifiers (ret), whether the
\* call panicked instead of returning, and whether it subtracted from a
\* limit of 0.
query_point(self, point, limit) ==
    IF ~contains_point(self.boundary, point)
    THEN [ret |-> {}, panicked |-> FALSE, underflow |-> FALSE]
    ELSE
        LET s == scan(self.objects, 1, point, limit, {})
        IN  IF s.panicked THEN [ret |-> {}, panicked |-> TRUE, underflow |-> TRUE]
            ELSE IF self.children = None
            THEN [ret |-> s.ret, panicked |-> FALSE, underflow |-> s.underflow]
            ELSE
                LET c == query_children(self.children, 1, point, s.limit, s.ret)
                IN  IF c.panicked THEN [ret |-> {}, panicked |-> TRUE, underflow |-> TRUE]
                    ELSE [ret |-> c.ret, panicked |-> FALSE,
                          underflow |-> s.underflow \/ c.underflow]

----------------------------------------------------------------------------
\* The inputs of the run.

\* The tree's boundary: Rect::new(0, 0, w, h) with w = h = 2 * RootHalf.
RootBoundary == Rect_new(0, 0, 2 * RootHalf, 2 * RootHalf)

Rect_at(cx, cy, wh, hh) == [center |-> Point2_new(cx, cy), w_half |-> wh, h_half |-> hh]

\* The whole boundary: fits the root and no quadrant.
RFull == RootBoundary
\* The boundary shifted by one unit: overlaps the root, is not contained in it.
RShifted == Rect_at(RootHalf + 1, RootHalf + 1, RootHalf, RootHalf)
\* A box around the centre: straddles all four quadrants.
RMid == Rect_at(RootHalf, RootHalf, RootHalf \div 2, RootHalf \div 2)
\* The degenerate point-rectangle at the centre: on the edge of all four quadrants.
RPoint == Rect_at(RootHalf, RootHalf, 0, 0)
\* A box inside the NW quadrant, around the centre of that quadrant.
RNorthWest == Rect_at(RootHalf \div 2, RootHalf \div 2, RootHalf \div 4, RootHalf \div 4)
\* A box inside the NW quadrant of the NW quadrant.
RSmall == Rect_at(RootHalf \div 4, RootHalf \div 4, RootHalf \div 8, RootHalf \div 8)
\* Exactly the SE quadrant.
RSouthEast == Rect_at((3 * RootHalf) \div 2, (3 * RootHalf) \div 2, RootHalf \div 2, RootHalf \div 2)

Rects == {RFull, RShifted, RMid, RPoint, RNorthWest, RSmall, RSouthEast}

Points ==
    {Point2_new(RootHalf, RootHalf),
     Point2_new(RootHalf \div 2, RootHalf \div 2),
     Point2_new(RootHalf \div 4, RootHalf \div 4),
     Point2_new(0, 0),
     Point2_new(2 * RootHalf + 1, RootHalf)}

Limits == {None} \cup {Some(n) : n \in 0..MaxLimit}

NoRect == Rect_at(0, 0, 0, 0)
NoPoint == Point2_new(0, 0)

\* The record of a call: op is "new", "insert" or "query_point"; the fields
\* of the other operation keep their neutral values.
Call(op, rect, id, err, point, limit, q) ==
    [op |-> op, rect |-> rect, id |-> id, err |-> err,
     point |-> point, limit |-> limit,
     ret |-> q.ret, panicked |-> q.panicked, underflow |-> q.underflow]

NoQuery == [ret |-> {}, panicked |-> FALSE, underflow |-> FALSE]

----------------------------------------------------------------------------
\* The state machine.

\* HashMap::insert on the host's map of accepted boxes, kept as the set of its
\* entries.
circles_insert(map, id, rect) ==
    {e \in map : e.id # id} \cup {[id |-> id, rect |-> rect]}

Init ==
    /\ \E capacity \in 1..MaxCapacity : qtree = QTreeNode_new(RootBoundary, capacity)
    /\ circles = {}
    /\ next_id = 1
    /\ overflow_checks \in BOOLEAN
    /\ last = Call("new", NoRect, 0, "Ok", NoPoint, None, NoQuery)
    /\ frames = <<>>

\* A call qtree.insert(&rect, id) with a fresh identifier; the host records
\* the box under its identifier when the insert succeeded (add_circle).
Insert ==
    /\ next_id <= MaxInserts
    /\ ~last.panicked
    /\ \E rect \in Rects :
        LET r == insert(qtree, rect, next_id)
        IN  /\ qtree' = r.node
            /\ circles' = IF r.err = "Ok" THEN circles_insert(circles, next_id, rect) ELSE circles
            /\ last' = Call("insert", rect, next_id, r.err, NoPoint, None, NoQuery)
    /\ next_id' = next_id + 1
    /\ UNCHANGED <<overflow_checks, frames>>

\* A call qtree.query_point(&point, limit).  A panic ends the process.
QueryPoint ==
    /\ ~last.panicked
    /\ \E point \in Points, limit \in Limits :
        last' = Call("query_point", NoRect, 0, "Ok", point, limit,
                     query_point(qtree, point, limit))
    /\ UNCHANGED <<qtree, circles, next_id, overflow_checks, frames>>

Next == Insert \/ QueryPoint

Spec == Init /\ [][Next]_vars

\* The runs that only insert: the trees of Spec, without the queries between.
SpecInsert == Init /\ [][Insert]_vars

----------------------------------------------------------------------------
\* Vocabulary of the properties.

Range(seq) == {seq[i] : i \in 1..Len(seq)}

RECURSIVE SubNodes(_)
\* A node and every node below it.
SubNodes(node) == {node} \cup UNION {SubNodes(node.children[i]) : i \in 1..Len(node.children)}

RECURSIVE AllObjects(_)
\* The entries stored in a node or below it.
AllObjects(node) ==
    Range(node.objects) \cup UNION {AllObjects(node.children[i]) : i \in 1..Len(node.children)}

RECURSIVE Paths(_)
\* The positions of the nodes of a tree: the root is <<>>, child i of the
\* node at p is Append(p, i).
Paths(node) ==
    {<<>>} \cup UNION {{<<i>> \o p : p \in Paths(node.children[i])} : i \in 1..Len(node.children)}

RECURSIVE NodeAt(_, _)
NodeAt(node, path) ==
    IF path = <<>> THEN node ELSE NodeAt(node.children[Head(path)], Tail(path))

Ids(entries) == {e.id : e \in entries}

Compass == {NE, NW, SW, SE}

Between(a, b, v) == (a <= v /\ v <= b) \/ (b <= v /\ v <= a)

\* r lies in the quadrant of b spanned by b's centre and b's corner `which`.
InQuadrant(b, which, r) ==
    \A c \in Compass :
        /\ Between(b.center.x, corner(b, which).x, corner(r, c).x)
        /\ Between(b.center.y, corner(b, which).y, corner(r, c).y)

\* The corner diagonally opposite.
Opposite(which) == (which + 2) % 4

----------------------------------------------------------------------------
\* C1: an insert on the root returns RectDoesNotFit exactly when the
\* rectangle is not fully contained in the root's boundary, and succeeds
\* otherwise: a RectDoesNotFit of a child is never what the caller gets.
InsertFailsIffOutsideRoot ==
    last.op = "insert" =>
        /\ last.err \in {"Ok", "RectDoesNotFit"}
        /\ last.err = "RectDoesNotFit" <=> ~contains_rect(qtree.boundary, last.rect)

\* An insert succeeded at the root although the first child probed (NE)
\* rejected the rectangle.
InsertSwallowedChildError ==
    /\ last.op = "insert"
    /\ last.err = "Ok"
    /\ qtree.children # None
    /\ ~contains_rect(qtree.children[1].boundary, last.rect)

\* C2: query_point(p, None) on the root returns exactly the identifiers of
\* the accepted boxes that contain p, edges inclusive; nothing for a point
\* outside the root boundary.
QueryReturnsExactlyContaining ==
    (last.op = "query_point" /\ last.limit = None) =>
        /\ ~last.panicked
        /\ last.ret = {e.id : e \in {c \in circles :
                /\ c.rect.center.x - c.rect.w_half <= last.point.x
                /\ last.point.x <= c.rect.center.x + c.rect.w_half
                /\ c.rect.center.y - c.rect.h_half <= last.point.y
                /\ last.point.y <= c.rect.center.y + c.rect.h_half}}
        /\ ~contains_point(qtree.boundary, last.point) => last.ret = {}

\* An unlimited query returned an identifier stored at the root and one
\* stored in the last child, and left out another stored box.
QueryFoundRootAndChild ==
    /\ last.op = "query_point"
    /\ last.limit = None
    /\ last.ret \cap Ids(Range(qtree.objects)) # {}
    /\ qtree.children # None
    /\ last.ret \cap Ids(AllObjects(qtree.children[4])) # {}
    /\ Ids(circles) \ last.ret # {}

\* C3: capacity is a soft threshold.  An insert into a node that holds at
\* least `capacity` objects, of a rectangle inside the node's boundary and
\* inside none of its quadrants, stores the rectangle in that node's own
\* objects, which then number more than `capacity`; every object stored
\* before stays where it was.
SoftCapacity ==
    \A n \in SubNodes(qtree), r \in Rects :
        ( /\ Len(n.objects) >= n.capacity
          /\ contains_rect(n.boundary, r)
          /\ \A q \in Compass : ~InQuadrant(n.boundary, q, r) )
        => LET res == insert(n, r, next_id)
           IN  /\ res.err = "Ok"
               /\ Range(res.node.objects) = Range(n.objects) \cup {[id |-> next_id, rect |-> r]}
               /\ Len(res.node.objects) = Len(n.objects) + 1
               /\ Len(res.node.objects) > n.capacity
               /\ IF n.children = None
                  THEN \A i \in 1..Len(res.node.children) :
                          AllObjects(res.node.children[i]) = {}
                  ELSE res.node.children = n.children

\* The last insert left its rectangle in the root's own objects, which now
\* number more than the capacity.
RootOverCapacity ==
    /\ last.op = "insert"
    /\ last.err = "Ok"
    /\ Len(qtree.objects) > qtree.capacity
    /\ [id |-> last.id, rect |-> last.rect] \in Range(qtree.objects)

\* C4: an insert into a node that holds at least `capacity` objects, of a
\* rectangle inside at least one quadrant, leaves the node subdivided, its
\* own objects as they were, and the rectangle in the subtree of exactly one
\* child: the first in the order NE, NW, SW, SE whose boundary contains it.
DelegatesToFirstFittingChild ==
    \A n \in SubNodes(qtree), r \in Rects :
        ( /\ Len(n.objects) >= n.capacity
          /\ \E q \in Compass : InQuadrant(n.boundary, q, r) )
        => LET res == insert(n, r, next_id)
               kids == res.node.children
           IN  /\ res.err = "Ok"
               /\ Len(kids) = 4
               /\ res.node.objects = n.objects
               /\ \E k \in 1..4 :
                    /\ contains_rect(kids[k].boundary, r)
                    /\ \A j \in 1..(k - 1) : ~contains_rect(kids[j].boundary, r)
                    /\ [id |-> next_id, rect |-> r] \in AllObjects(kids[k])
                    /\ \A j \in (1..4) \ {k} : next_id \notin Ids(AllObjects(kids[j]))
                    /\ \A j \in (1..4) \ {k} :
                          n.children # None => kids[j] = n.children[j]

\* The last insert put the point-rectangle at the centre, which all four
\* quadrants contain, into the NE child and not into the full root.
PointWentToFirstChild ==
    /\ last.op = "insert"
    /\ last.err = "Ok"
    /\ last.rect = RPoint
    /\ Len(qtree.objects) >= qtree.capacity
    /\ qtree.children # None
    /\ last.id \in Ids(AllObjects(qtree.children[1]))
    /\ last.id \notin Ids(Range(qtree.objects))

\* C5: a query with limit Some(n) that returns, returns at most n
\* identifiers.
QueryLimitRespected ==
    (last.op = "query_point" /\ last.limit # None /\ ~last.panicked) =>
        Cardinality(last.ret) <= last.limit[1]

\* C6: no query subtracts from a limit of 0.
QueryNeverUnderflows ==
    last.op = "query_point" => ~last.underflow

\* C7: every node has no children or exactly four, of the node's capacity,
\* which are, in the order NE, NW, SW, SE, the rectangles of half the
\* half-extents centred midway between the node's centre and its corner of
\* that name; each reaches from the node's centre to that corner, so the
\* four tile the node's boundary.
ChildrenAreTheFourQuadrants ==
    \A n \in SubNodes(qtree) :
        \/ n.children = None
        \/ /\ Len(n.children) = 4
           /\ \A which \in Compass :
                LET c == n.children[which + 1]
                    b == n.boundary
                IN  /\ c.capacity = n.capacity
                    /\ 2 * c.boundary.w_half = b.w_half
                    /\ 2 * c.boundary.h_half = b.h_half
                    /\ 2 * c.boundary.center.x = b.center.x + corner(b, which).x
                    /\ 2 * c.boundary.center.y = b.center.y + corner(b, which).y
                    /\ corner(c.boundary, which) = corner(b, which)
                    /\ corner(c.boundary, Opposite(which)) = b.center

\* The root is subdivided and so is one of its children.
TwoLevelsOfChildren ==
    /\ qtree.children # None
    /\ \E i \in 1..4 : qtree.children[i].children # None

\* C8: children are permanent and subdivision is idempotent.  A step keeps
\* every node that has children where it is, with children of the same
\* boundaries that still hold every object they held; and subdiv applied to
\* a node that has children returns the node as it is.
ChildrenArePermanent ==
    [][ /\ \A p \in Paths(qtree) :
            LET n == NodeAt(qtree, p)
            IN  n.children # None =>
                    /\ p \in Paths(qtree')
                    /\ Len(NodeAt(qtree', p).children) = Len(n.children)
                    /\ \A i \in 1..Len(n.children) :
                        LET c == NodeAt(qtree', p).children[i]
                        IN  /\ c.boundary = n.children[i].boundary
                            /\ AllObjects(n.children[i]) \subseteq AllObjects(c)
        /\ \A n \in SubNodes(qtree') : n.children # None => subdiv(n) = n
      ]_vars

\* An insert has failed on a tree whose root has children that hold
\* objects.
CallsOnSubdividedTree ==
    /\ qtree.children # None
    /\ \E i \in 1..4 : AllObjects(qtree.children[i]) # {}
    /\ last.op = "insert"
    /\ last.err = "RectDoesNotFit"

\* The rectangles of a tree: the boundaries of its nodes and the stored boxes.
RectsOf(node) ==
    {n.boundary : n \in SubNodes(node)} \cup {e.rect : e \in AllObjects(node)}

\* Offsets by which a rectangle is shifted.
MaxOffset == 2
Offsets == (-MaxOffset)..MaxOffset

\* C9: contains_rect(A, B) holds exactly when the four corners of B lie in
\* A, edges included; a rectangle contains itself and its four corners; and
\* A does not contain a rectangle of A's half-extents whose centre is
\* shifted by a nonzero offset.
ContainsRectIsFullEnclosure ==
    \A A \in RectsOf(qtree) \cup Rects :
        /\ \A B \in RectsOf(qtree) \cup Rects :
            contains_rect(A, B) <=>
                \A sx \in {-1, 1}, sy \in {-1, 1} :
                    LET x == B.center.x + sx * B.w_half
                        y == B.center.y + sy * B.h_half
                    IN  /\ A.center.x - A.w_half <= x
                        /\ x <= A.center.x + A.w_half
                        /\ A.center.y - A.h_half <= y
                        /\ y <= A.center.y + A.h_half
        /\ contains_rect(A, A)
        /\ \A which \in Compass : contains_point(A, corner(A, which))
        /\ \A dx \in Offsets, dy \in Offsets :
            (dx # 0 \/ dy # 0) =>
                ~contains_rect(A, Rect_at(A.center.x + dx, A.center.y + dy, A.w_half, A.h_half))

\* The tree rejected the boundary shifted by one unit, which overlaps the
\* root, and holds the boundary itself.
OverlapRejectedSelfAccepted ==
    /\ last.op = "insert"
    /\ last.rect = RShifted
    /\ last.err = "RectDoesNotFit"
    /\ RFull \in {e.rect : e \in Range(qtree.objects)}
    /\ qtree.children # None

----------------------------------------------------------------------------
\* QTreeNode::insert, one level of the recursion at a time.  A frame is one
\* call of insert: the position (path) of the node it runs on, its arguments,
\* where it stands (pc: "enter" at the top of the function, "probe" about to
\* call child i, "resume" back from that call with result got) and the
\* child it is probing.

RECURSIVE UpdateAt(_, _, _)
\* The tree with the node at `path` replaced by `node`.
UpdateAt(tree, path, node) ==
    IF path = <<>> THEN node
    ELSE [tree EXCEPT !.children[Head(path)] = UpdateAt(@, Tail(path), node)]

Frame(path, rect, id) ==
    [path |-> path, rect |-> rect, id |-> id, pc |-> "enter", i |-> 1, got |-> "Ok"]

\* The stack holds at most MaxDepth frames.  An insert into a tree built by
\* MaxInserts inserts never needs more than MaxInserts of them.
MaxDepth == MaxInserts + 1

Top == frames[Len(frames)]

\* The innermost call returns err, leaving the tree as `tree`: its caller
\* resumes with that result, or, when it was the call made by the host, the
\* host gets the result (and records the box when it is Ok).
Return(err, tree) ==
    /\ qtree' = tree
    /\ IF Len(frames) = 1
       THEN /\ frames' = <<>>
            /\ last' = Call("insert", Top.rect, Top.id, err, NoPoint, None, NoQuery)
            /\ circles' = IF err = "Ok" THEN circles_insert(circles, Top.id, Top.rect)
                          ELSE circles
            /\ next_id' = next_id + 1
       ELSE /\ frames' = [SubSeq(frames, 1, Len(frames) - 1)
                            EXCEPT ![Len(frames) - 1].pc = "resume",
                                   ![Len(frames) - 1].got = err]
            /\ UNCHANGED <<last, circles, next_id>>
    /\ UNCHANGED overflow_checks

\* The host calls qtree.insert(&rect, id) with a fresh identifier.
InsertCall ==
    /\ frames = <<>>
    /\ next_id <= MaxInserts
    /\ \E rect \in Rects : frames' = <<Frame(<<>>, rect, next_id)>>
    /\ UNCHANGED <<qtree, circles, next_id, overflow_checks, last>>

\* From the top of insert to its first return or to the loop over the
\* children: the boundary check, the store below capacity, the subdivision.
InsertEnter ==
    /\ frames # <<>>
    /\ Top.pc = "enter"
    /\ LET self == NodeAt(qtree, Top.path)
       IN  IF ~contains_rect(self.boundary, Top.rect)
           THEN Return("RectDoesNotFit", qtree)
           ELSE IF Len(self.objects) < self.capacity
           THEN Return("Ok", UpdateAt(qtree, Top.path,
                    [self EXCEPT !.objects = objects_insert(@, Top.id, Top.rect)]))
           ELSE /\ qtree' = UpdateAt(qtree, Top.path,
                                IF self.children = None THEN subdiv(self) ELSE self)
                /\ frames' = [frames EXCEPT ![Len(frames)].pc = "probe", ![Len(frames)].i = 1]
                /\ UNCHANGED <<circles, next_id, overflow_checks, last>>

\* The call child.insert(rect, id) on child i.
InsertProbe ==
    /\ frames # <<>>
    /\ Top.pc = "probe"
    /\ Len(frames) < MaxDepth
    /\ frames' = Append(frames, Frame(Append(Top.path, Top.i), Top.rect, Top.id))
    /\ UNCHANGED <<qtree, circles, next_id, overflow_checks, last>>

\* Back from child.insert: Ok returns Ok, a swallowed error moves on to the
\* next child or, after the last child, stores the rectangle in this node
\* and returns Ok; any other error is returned.
InsertResume ==
    /\ frames # <<>>
    /\ Top.pc = "resume"
    /\ LET self == NodeAt(qtree, Top.path)
       IN  IF Top.got = "Ok" THEN Return("Ok", qtree)
           ELSE IF ~probe_swallows(Top.got) THEN Return(Top.got, qtree)
           ELSE IF Top.i < Len(self.children)
           THEN /\ frames' = [frames EXCEPT ![Len(frames)].pc = "probe",
                                            ![Len(frames)].i = Top.i + 1]
                /\ UNCHANGED <<qtree, circles, next_id, overflow_checks, last>>
           ELSE Return("Ok", UpdateAt(qtree, Top.path,
                    [self EXCEPT !.objects = objects_insert(@, Top.id, Top.rect)]))

\* A call in progress keeps running: the program is single-threaded and
\* insert waits for nothing.
InsertRun == InsertEnter \/ InsertProbe \/ InsertResume

NextSteps == InsertCall \/ InsertEnter \/ InsertProbe \/ InsertResume

SpecSteps == Init /\ [][NextSteps]_vars /\ WF_vars(InsertRun)

\* C11: every insert call terminates.  On a tree built with capacity >= 1,
\* a call of insert that has started, with any rectangle, the degenerate
\* point-rectangle included, ends: every level of the recursion returns and
\* the host gets its result.
InsertTerminates ==
    [](frames # <<>> => <>(frames = <<>>))

\* The insert of the point-rectangle at the centre, which fits a quadrant at
\* every depth, has returned Ok after storing it two levels below the root.
PointStoredTwoLevelsDown ==
    /\ frames = <<>>
    /\ last.op = "insert"
    /\ last.err = "Ok"
    /\ last.rect = RPoint
    /\ \E p \in Paths(qtree) :
        /\ Len(p) >= 2
        /\ [id |-> last.id, rect |-> RPoint] \in Range(NodeAt(qtree, p).objects)

\* The positions of the nodes whose own objects hold an entry for id.
Holders(id) == {p \in Paths(qtree) : id \in Ids(Range(NodeAt(qtree, p).objects))}

\* C12: every identifier whose insert succeeded is stored in exactly one
\* node, once, with the rectangle it was inserted with, and that rectangle
\* lies inside the boundary of that node and of each of its ancestors; an
\* identifier whose insert failed is stored nowhere.
StoredExactlyOnce ==
    /\ \A c \in circles :
        /\ Cardinality(Holders(c.id)) = 1
        /\ \A p \in Holders(c.id) :
            LET objects == NodeAt(qtree, p).objects
            IN  /\ Cardinality({i \in 1..Len(objects) : objects[i].id = c.id}) = 1
                /\ \A i \in 1..Len(objects) : objects[i].id = c.id => objects[i].rect = c.rect
                /\ \A k \in 0..Len(p) :
                    contains_rect(NodeAt(qtree, SubSeq(p, 1, k)).boundary, c.rect)
    /\ Ids(AllObjects(qtree)) = Ids(circles)
    /\ (last.op = "insert" /\ last.err # "Ok") =>
            /\ last.id \notin Ids(AllObjects(qtree))
            /\ last.id \notin Ids(circles)

\* The point-rectangle, which all four quadrants contain, is stored below
\* the root, and the last insert failed.
StoredBelowRootAfterFailure ==
    /\ last.op = "insert"
    /\ last.err = "RectDoesNotFit"
    /\ \E c \in circles : c.rect = RPoint /\ \E p \in Holders(c.id) : Len(p) >= 1

====
